---- MODULE Spec2Model ----
(***************************************************************************)
(* Model of the error classifier (computeErrorCode, errorIsGack,           *)
(* errorIsTypeError, errorToSfCommandError) and of the duration flag       *)
(* (validate, default, toDuration).                                        *)
(*                                                                         *)
(* JavaScript values are tagged records; every string is a sequence of     *)
(* one-character strings, so that the regular expression, includes() and   *)
(* parseInt() are computed on the characters.                              *)
(***************************************************************************)
EXTENDS Integers, Sequences, FiniteSets, TLC

VARIABLES call, processExitCode, pc, fn, cur, seen

vars == <<call, processExitCode, pc, fn, cur, seen>>

(***************************************************************************)
(* Bounds of the model.                                                    *)
(***************************************************************************)
\* Longest cause chain, counted in cause links below the outermost error.
MaxDepth == 2
\* Largest number carried by an exit-code field; the smallest is -1.
MaxCode == 2
\* Longest raw input handed to validate.
MaxLen == 3
\* Largest bound or default of a duration flag; the smallest is -1.
MaxBound == 2

(***************************************************************************)
(* JavaScript values.                                                      *)
(***************************************************************************)
\* A property that the object does not have ('k' in o is false).
Absent == [t |-> "absent"]
Undefined == [t |-> "undefined"]
Null == [t |-> "null"]
Num(n) == [t |-> "number", n |-> n]
NaN == [t |-> "number", nan |-> TRUE]
Str(s) == [t |-> "string", s |-> s]
Bool(b) == [t |-> "boolean", b |-> b]
\* The value of o.k: undefined when the property is absent.
Get(v) == IF v = Absent THEN Undefined ELSE v
\* 'k' in o
In(v) == v # Absent
\* typeof v === 'number'
IsNumber(v) == v.t = "number"
IsNullish(v) == Get(v).t \in {"undefined", "null"}
\* a ?? b
Coalesce(a, b) == IF IsNullish(a) THEN b ELSE a
\* Whether `v && ...` goes on: a number is truthy unless it is 0 or NaN.
Truthy(v) ==
  CASE v.t = "number" -> (v # NaN /\ v.n # 0)
    [] v.t = "string" -> Len(v.s) > 0
    [] v.t = "boolean" -> v.b
    [] v.t \in {"absent", "undefined", "null"} -> FALSE
    [] OTHER -> TRUE

\* How a call ends.
Return(v) == [o |-> "return", v |-> v]
Throw(e) == [o |-> "throw", e |-> e]

(***************************************************************************)
(* Text.                                                                   *)
(***************************************************************************)
Rep(c, n) == [i \in 1..n |-> c]
Digit == {"0", "1", "2", "3", "4", "5", "6", "7", "8", "9"}
TypeErrorWord == <<"T", "y", "p", "e", "E", "r", "r", "o", "r">>
ErrorWord == <<"E", "r", "r", "o", "r">>
UndefinedWord == <<"u", "n", "d", "e", "f", "i", "n", "e", "d">>
NullWord == <<"n", "u", "l", "l">>

\* String(v), as RegExp.prototype.test applies it to its argument: of a
\* string, of null and of undefined.
StringOf(v) ==
  CASE v.t = "string" -> v.s
    [] v.t = "null" -> NullWord
    [] v.t \in {"undefined", "absent"} -> UndefinedWord

\* s.includes(sub)
includes(s, sub) ==
  \E i \in 1..(Len(s) - Len(sub) + 1) : SubSeq(s, i, i + Len(sub) - 1) = sub

\* The length of the run of digits of s that starts at i.
RECURSIVE DigitsFrom(_, _)
DigitsFrom(s, i) ==
  IF i <= Len(s) /\ s[i] \in Digit THEN 1 + DigitsFrom(s, i + 1) ELSE 0

\* The length of the run of digits of s that ends at i.
RECURSIVE DigitsUpTo(_, _)
DigitsUpTo(s, i) ==
  IF i >= 1 /\ s[i] \in Digit THEN 1 + DigitsUpTo(s, i - 1) ELSE 0

\* The quantifiers of /\d{9,}-\d{3,} \(-?\d{7,}\)/
GackIdDigits == 9
GackSeqDigits == 3
GackCodeDigits == 7

At(s, i) == IF i \in 1..Len(s) THEN s[i] ELSE ""

\* Whether /\d{9,}-\d{3,} \(-?\d{7,}\)/ matches s with its first "-" at j.
\* Neither "-", " " nor "(" is a digit, so each \d run of a match reaches the
\* next literal: the backtracking search of the regex finds a match exactly
\* when the runs around the literals are long enough.
GackAt(s, j) ==
  LET b == DigitsFrom(s, j + 1)
      p == j + 1 + b
      q == IF At(s, p + 2) = "-" THEN p + 3 ELSE p + 2
      c == DigitsFrom(s, q)
  IN /\ s[j] = "-"
     /\ DigitsUpTo(s, j - 1) >= GackIdDigits
     /\ b >= GackSeqDigits
     /\ At(s, p) = " "
     /\ At(s, p + 1) = "("
     /\ c >= GackCodeDigits
     /\ At(s, q + c) = ")"

\* gackRegex.test(v)
gackRegex(v) == LET s == StringOf(v) IN \E j \in 1..Len(s) : GackAt(s, j)

(***************************************************************************)
(* Errors.  An error is its cause chain: nodes[1] is the error itself,     *)
(* nodes[i + 1] is nodes[i].cause, and `last` is the cause of the last     *)
(* node: absent, a value that is no Error, or (a cycle) an earlier node.   *)
(* `at` is the node a call looks at; the exit-code and report fields are   *)
(* those of the outermost error.                                           *)
(***************************************************************************)
Node(ctor, name, message, stack) ==
  [ctor |-> ctor, name |-> name, message |-> message, stack |-> stack]

PlainText == <<"b", "o", "o", "m">>
\* 123456789-123 (1234567): the shortest text the pattern matches.
GackText ==
  Rep("1", GackIdDigits) \o <<"-">> \o Rep("2", GackSeqDigits)
    \o <<" ", "(">> \o Rep("3", GackCodeDigits) \o <<")">>
\* A gack inside a sentence, with the optional minus sign and longer runs.
GackNegText ==
  <<"I", "d", " ">> \o Rep("1", GackIdDigits + 1) \o <<"-">>
    \o Rep("2", GackSeqDigits + 3) \o <<" ", "(", "-">>
    \o Rep("3", GackCodeDigits + 3) \o <<")", ".">>
\* One digit short in the first run: not a gack.
NearGackText ==
  Rep("1", GackIdDigits - 1) \o <<"-">> \o Rep("2", GackSeqDigits)
    \o <<" ", "(">> \o Rep("3", GackCodeDigits) \o <<")">>
TypeErrorText == <<"a", " ">> \o TypeErrorWord \o <<"!">>
StackText == <<"a", "t", " ", "f", ":", "1">>

PlainNode == Node("Error", Str(ErrorWord), Str(PlainText), Str(StackText))

\* The nodes of the model: the plain error and its variations.
Nodes ==
  {PlainNode}
    \cup {[PlainNode EXCEPT !.message = m] :
            m \in {Str(GackText), Str(GackNegText), Str(NearGackText),
                   Str(TypeErrorText), Undefined}}
    \cup {[PlainNode EXCEPT !.stack = s] :
            s \in {Str(GackText), Str(TypeErrorText), Undefined, Num(42)}}
    \cup {[PlainNode EXCEPT !.name = Str(TypeErrorWord)]}
    \cup {Node("TypeError", Str(TypeErrorWord), Str(PlainText), Str(StackText)),
          Node("TypeError", Str(TypeErrorWord), Str(GackText), Str(StackText))}

\* A node as the types declare it: message a string, stack a string or
\* undefined.
WellTyped(n) ==
  n.message.t = "string" /\ n.stack.t \in {"string", "undefined"}

Back(j) == [t |-> "back", to |-> j]

NoFields ==
  [oclif |-> Absent, exitCode |-> Absent, code |-> Absent, actions |-> Absent,
   context |-> Absent, commandName |-> Absent, data |-> Absent,
   result |-> Absent]

Chain(nodes, last) == [nodes |-> nodes, at |-> 1, last |-> last, f |-> NoFields]

SeqsUpTo(S, n) == UNION {[1..k -> S] : k \in 1..n}

\* Finite chains: the last node has no cause, or a cause that is no Error.
ChainErrors ==
  {Chain(ns, l) : ns \in SeqsUpTo(Nodes, MaxDepth + 1),
                  l \in {Absent, Str(PlainText)}}

Here(error) == error.nodes[error.at]
\* 'cause' in error
HasCause(error) == error.at < Len(error.nodes) \/ error.last # Absent
\* A guard that takes a cause already on the chain for no Error.
CauseIsError_NoCycle(error) == error.at < Len(error.nodes)

\* error.cause instanceof Error
CauseIsError(error) == error.at < Len(error.nodes) \/ error.last.t = "back"
\* error.cause
Cause(error) ==
  [error EXCEPT !.at = IF error.at < Len(error.nodes) THEN error.at + 1
                        ELSE error.last.to]

(***************************************************************************)
(* errorIsGack, errorIsTypeError.                                          *)
(***************************************************************************)
\* The tests of errorIsGack on the error itself: message, then stack.
GackHere(error) ==
  \/ gackRegex(Here(error).message)
  \/ (Here(error).stack.t = "string" /\ gackRegex(Here(error).stack))

\* errorIsGack without the recursion into the cause.
errorIsGack_NoCause(error) == GackHere(error)

RECURSIVE errorIsGack(_)
errorIsGack(error) ==
  \/ GackHere(error)
  \/ (HasCause(error) /\ CauseIsError(error) /\ errorIsGack(Cause(error)))

\* The tests of errorIsTypeError on the error itself, in the order of the
\* code: "true", "false", or "throw" when message.includes or stack.includes
\* is no function.
TypeErrorHere(error) ==
  LET n == Here(error) IN
  IF n.ctor = "TypeError" THEN "true"
  ELSE IF n.name = Str(TypeErrorWord) THEN "true"
  ELSE IF n.message.t # "string" THEN "throw"
  ELSE IF includes(n.message.s, TypeErrorWord) THEN "true"
  ELSE IF n.stack.t \in {"undefined", "null"} THEN "false"
  ELSE IF n.stack.t # "string" THEN "throw"
  ELSE IF includes(n.stack.s, TypeErrorWord) THEN "true"
  ELSE "false"

RECURSIVE errorIsTypeError(_)
errorIsTypeError(error) ==
  LET here == TypeErrorHere(error) IN
  IF here = "true" THEN Return(Bool(TRUE))
  ELSE IF here = "throw" THEN Throw("TypeError")
  ELSE IF HasCause(error) /\ CauseIsError(error)
       THEN errorIsTypeError(Cause(error))
       ELSE Return(Bool(FALSE))

(***************************************************************************)
(* The calls of the classifier on finite chains.                           *)
(***************************************************************************)
NoCall == [op |-> "none"]

NoError == [t |-> "none"]

\* No call of errorIsGack or errorIsTypeError is being stepped through.
Idle == /\ pc = "idle" /\ fn = "none" /\ cur = NoError /\ seen = {}

InitClassify ==
  /\ call = NoCall
  /\ processExitCode = Undefined
  /\ Idle

\* A call is made when no call is in progress, and then returns to the caller.
CallReturns ==
  /\ call # NoCall
  /\ call' = NoCall
  /\ UNCHANGED <<processExitCode, pc, fn, cur, seen>>

CallErrorIsGack ==
  /\ call = NoCall
  /\ \E e \in ChainErrors :
       call' = [op |-> "errorIsGack", error |-> e,
                out |-> Return(Bool(errorIsGack(e)))]
  /\ UNCHANGED <<processExitCode, pc, fn, cur, seen>>

CallErrorIsTypeError ==
  /\ call = NoCall
  /\ \E e \in ChainErrors :
       call' = [op |-> "errorIsTypeError", error |-> e,
                out |-> errorIsTypeError(e)]
  /\ UNCHANGED <<processExitCode, pc, fn, cur, seen>>

NextClassify ==
  \/ CallErrorIsGack
  \/ CallErrorIsTypeError
  \/ CallReturns

SpecClassify == InitClassify /\ [][NextClassify]_vars

\* C3: on a finite cause chain whose links are all Errors, errorIsGack
\* returns true exactly when the message or stack of some node of the chain
\* matches the gack pattern, at whatever depth; and errorIsTypeError, on
\* nodes that are typed as declared (message a string, stack a string or
\* undefined), returns true exactly when some node is a TypeError instance,
\* is named 'TypeError' or contains 'TypeError' in its message or stack.
NodeAt(error, i) == [error EXCEPT !.at = i]
SomeNodeIsGack(error) ==
  \E i \in 1..Len(error.nodes) : GackHere(NodeAt(error, i))
SomeNodeIsTypeError(error) ==
  \E i \in 1..Len(error.nodes) : TypeErrorHere(NodeAt(error, i)) = "true"
AllWellTyped(error) ==
  \A i \in 1..Len(error.nodes) : WellTyped(error.nodes[i])

C3_CauseChain ==
  /\ call.op = "errorIsGack" =>
       call.out = Return(Bool(SomeNodeIsGack(call.error)))
  /\ (call.op = "errorIsTypeError" /\ AllWellTyped(call.error)) =>
       call.out = Return(Bool(SomeNodeIsTypeError(call.error)))

\* A gack found only in the innermost error of a chain of MaxDepth links.
C3_Witness ==
  /\ call.op = "errorIsGack"
  /\ Len(call.error.nodes) = MaxDepth + 1
  /\ \A i \in 1..MaxDepth : ~GackHere(NodeAt(call.error, i))
  /\ GackHere(NodeAt(call.error, MaxDepth + 1))
  /\ call.out = Return(Bool(TRUE))

(***************************************************************************)
(* computeErrorCode.                                                       *)
(***************************************************************************)
GackExitCode == 20
TypeErrorExitCode == 10
DefaultExitCode == 1

\* An object that carries an `exit` property (absent when it has none).
Obj(exit) == [t |-> "object", exit |-> exit]

\* isOclifError(e): 'oclif' in e
isOclifError(e) == In(e.f.oclif)

\* Lines 42-46 with the test of the code inverted.
CodeOrProcess_Inverted(e, pe) ==
  IF In(e.f.code)
  THEN Return(IF ~IsNumber(e.f.code) THEN e.f.code ELSE Num(DefaultExitCode))
  ELSE Return(IF IsNumber(pe) THEN pe ELSE Num(DefaultExitCode))

\* The code field, and then the exit code of the process.
CodeOrProcess(e, pe) ==
  IF In(e.f.code)
  THEN Return(IF ~IsNumber(e.f.code) THEN Num(DefaultExitCode) ELSE e.f.code)
  ELSE Return(IF IsNumber(pe) THEN pe ELSE Num(DefaultExitCode))

\* The exit-code fields with exitCode read before oclif.exit.
ExitCodeFields_ExitCodeFirst(e, pe) ==
  IF In(e.f.exitCode) /\ IsNumber(e.f.exitCode) THEN Return(e.f.exitCode)
  ELSE IF isOclifError(e) /\ Get(e.f.oclif).t \in {"undefined", "null"}
       THEN Throw("TypeError")
  ELSE IF isOclifError(e) /\ IsNumber(Get(e.f.oclif.exit))
       THEN Return(e.f.oclif.exit)
  ELSE CodeOrProcess(e, pe)

\* The rules below the gack and type-error tests: oclif.exit, exitCode, code,
\* process.exitCode.  Reading .exit of an oclif property that is null or
\* undefined throws a TypeError.
ExitCodeFields(e, pe) ==
  IF isOclifError(e) /\ Get(e.f.oclif).t \in {"undefined", "null"}
  THEN Throw("TypeError")
  ELSE IF isOclifError(e) /\ IsNumber(Get(e.f.oclif.exit))
       THEN Return(e.f.oclif.exit)
  ELSE IF In(e.f.exitCode) /\ IsNumber(e.f.exitCode) THEN Return(e.f.exitCode)
  ELSE CodeOrProcess(e, pe)

\* computeErrorCode with the type-error test before the gack test.
computeErrorCode_TypeErrorFirst(e, pe) ==
  LET isType == errorIsTypeError(e) IN
  IF isType.o = "throw" THEN isType
  ELSE IF isType.v.b THEN Return(Num(TypeErrorExitCode))
  ELSE IF errorIsGack(e) THEN Return(Num(GackExitCode))
  ELSE ExitCodeFields(e, pe)

\* computeErrorCode(e), with pe the value of process.exitCode.
computeErrorCode(e, pe) ==
  IF errorIsGack(e) THEN Return(Num(GackExitCode))
  ELSE LET isType == errorIsTypeError(e) IN
       IF isType.o = "throw" THEN isType
       ELSE IF isType.v.b THEN Return(Num(TypeErrorExitCode))
       ELSE ExitCodeFields(e, pe)

\* The numbers the exit-code fields carry in the model.
ExitNumbers == {Num(n) : n \in -1..MaxCode}
OclifValues == {Absent, Null, Obj(Absent), Obj(Str(PlainText))}
                 \cup {Obj(n) : n \in ExitNumbers}
ExitCodeValues == {Absent, Str(PlainText), NaN} \cup ExitNumbers
CodeValues == {Absent, Str(PlainText)} \cup ExitNumbers
ProcessExitCodes == {Undefined} \cup ExitNumbers

ExitFields ==
  {[NoFields EXCEPT !.oclif = o, !.exitCode = x, !.code = c] :
     o \in OclifValues, x \in ExitCodeValues, c \in CodeValues}

\* Two sets of fields tried on the longer chains: none, and all three set to
\* numbers that differ.
ProbeFields ==
  {NoFields,
   [NoFields EXCEPT !.oclif = Obj(Num(MaxCode)), !.exitCode = Num(-1),
                    !.code = Num(0)]}

ProbeNodes ==
  {PlainNode, [PlainNode EXCEPT !.message = Str(GackText)],
   Node("TypeError", Str(TypeErrorWord), Str(PlainText), Str(StackText))}

\* The errors handed to computeErrorCode: every node with every combination
\* of exit-code fields, and the longer chains with the probe fields.
ExitErrors ==
  {[Chain(<<n>>, Absent) EXCEPT !.f = f] : n \in Nodes, f \in ExitFields}
    \cup {[Chain(ns, Absent) EXCEPT !.f = f] :
            ns \in SeqsUpTo(ProbeNodes, MaxDepth + 1), f \in ProbeFields}

InitExit == InitClassify

\* process.exitCode = v, by the command or the framework.
SetProcessExitCode ==
  /\ call = NoCall
  /\ \E v \in ProcessExitCodes :
       /\ v # processExitCode
       /\ processExitCode' = v
  /\ UNCHANGED <<call, pc, fn, cur, seen>>

CallComputeErrorCode ==
  /\ call = NoCall
  /\ \E e \in ExitErrors :
       call' = [op |-> "computeErrorCode", error |-> e,
                out |-> computeErrorCode(e, processExitCode)]
  /\ UNCHANGED <<processExitCode, pc, fn, cur, seen>>

NextExit ==
  \/ SetProcessExitCode
  \/ CallComputeErrorCode
  \/ CallReturns

SpecExit == InitExit /\ [][NextExit]_vars

\* Whether the call is computeErrorCode on an error that is no gack and no
\* type error.
PlainCall ==
  /\ call.op = "computeErrorCode"
  /\ ~errorIsGack(call.error)
  /\ errorIsTypeError(call.error) = Return(Bool(FALSE))

\* e.oclif.exit is a number (on an error without oclif, or whose oclif is
\* null, it is not).
NumericOclifExit(e) ==
  /\ In(e.f.oclif)
  /\ e.f.oclif.t = "object"
  /\ IsNumber(Get(e.f.oclif.exit))

\* The oclif marker as OclifError declares it: an object, when present.
OclifIsObject(e) == In(e.f.oclif) => e.f.oclif.t = "object"

\* C1: a gack yields 20 and a type error that is no gack yields 10, whatever
\* oclif.exit, exitCode, code and process.exitCode are.
C1_GackAndTypeErrorFirst ==
  call.op = "computeErrorCode" =>
    /\ errorIsGack(call.error) => call.out = Return(Num(GackExitCode))
    /\ (errorIsTypeError(call.error) = Return(Bool(TRUE))
          /\ ~errorIsGack(call.error)) =>
         call.out = Return(Num(TypeErrorExitCode))

\* An error that is both a gack and a TypeError, with every exit-code source
\* set to a number, yields 20.
C1_Witness ==
  /\ call.op = "computeErrorCode"
  /\ errorIsGack(call.error)
  /\ errorIsTypeError(call.error) = Return(Bool(TRUE))
  /\ NumericOclifExit(call.error)
  /\ IsNumber(call.error.f.exitCode)
  /\ IsNumber(call.error.f.code)
  /\ IsNumber(processExitCode)
  /\ call.out = Return(Num(GackExitCode))

\* C2: on an error that is no gack and no type error (its oclif marker, when
\* present, an object), the first rule that applies decides: a numeric
\* oclif.exit; else a numeric exitCode; else, when code is present, code if
\* it is a number and 1 if not; else process.exitCode if it is a number and 1
\* if not.
C2_Precedence ==
  (PlainCall /\ OclifIsObject(call.error)) =>
    LET e == call.error IN
    /\ NumericOclifExit(e) => call.out = Return(e.f.oclif.exit)
    /\ (~NumericOclifExit(e) /\ IsNumber(e.f.exitCode)) =>
         call.out = Return(e.f.exitCode)
    /\ (~NumericOclifExit(e) /\ ~IsNumber(e.f.exitCode) /\ In(e.f.code)) =>
         call.out = Return(IF IsNumber(e.f.code) THEN e.f.code
                           ELSE Num(DefaultExitCode))
    /\ (~NumericOclifExit(e) /\ ~IsNumber(e.f.exitCode) /\ ~In(e.f.code)) =>
         call.out = Return(IF IsNumber(processExitCode) THEN processExitCode
                           ELSE Num(DefaultExitCode))

\* An oclif.exit and an exitCode that are no numbers fall through, and a
\* code that is no number yields 1 although process.exitCode is another
\* number.
C2_Witness ==
  /\ PlainCall
  /\ call.error.f.oclif = Obj(Str(PlainText))
  /\ call.error.f.exitCode = Str(PlainText)
  /\ call.error.f.code = Str(PlainText)
  /\ processExitCode = Num(MaxCode)
  /\ MaxCode # DefaultExitCode
  /\ call.out = Return(Num(DefaultExitCode))

\* C4 as stated: computeErrorCode never throws.
C4_NeverThrows ==
  call.op = "computeErrorCode" => call.out.o = "return"

IsNonNegativeInteger(v) == v.t = "number" /\ v # NaN /\ v.n >= 0

\* C5 as stated: the number returned is an integer >= 0.
C5_NonNegative ==
  (call.op = "computeErrorCode" /\ call.out.o = "return") =>
    IsNonNegativeInteger(call.out.v)

\* The numbers that the exit-code sources of a call carry.
Carried(e, pe) ==
  {v \in {Get(e.f.exitCode), Get(e.f.code), pe} : IsNumber(v)}
    \cup (IF NumericOclifExit(e) THEN {e.f.oclif.exit} ELSE {})

\* C5, amended: the result is 20, 10, 1 or the number one of the sources
\* carries, as it is; so it is a non-negative integer when every number the
\* sources carry is one.
C5_Unclamped ==
  (call.op = "computeErrorCode" /\ call.out.o = "return") =>
    /\ call.out.v \in
         {Num(GackExitCode), Num(TypeErrorExitCode), Num(DefaultExitCode)}
           \cup Carried(call.error, processExitCode)
    /\ (\A v \in Carried(call.error, processExitCode) :
          IsNonNegativeInteger(v)) => IsNonNegativeInteger(call.out.v)

\* A negative exitCode is returned as it is.
C5_Witness ==
  /\ call.op = "computeErrorCode"
  /\ call.error.f.exitCode = Num(-1)
  /\ call.out = Return(Num(-1))

(***************************************************************************)
(* errorToSfCommandError.                                                  *)
(***************************************************************************)
\* removeEmpty(obj): the entries of obj whose value is neither null nor
\* undefined.
removeEmpty(obj) ==
  [k \in {k \in DOMAIN obj : ~IsNullish(obj[k])} |-> obj[k]]

\* {...a, ...b}
Spread(a, b) ==
  [k \in DOMAIN a \cup DOMAIN b |-> IF k \in DOMAIN b THEN b[k] ELSE a[k]]

\* 'k' in error ? error.k : other
FieldOr(error, k, other) == IF In(error.f[k]) THEN error.f[k] ELSE other

\* errorToSfCommandError without the `?? commandName` of context and
\* commandName.
errorToSfCommandError_NoCoalesce(codeFromError, error, commandName) ==
  Spread(
    removeEmpty(
      [code |-> codeFromError,
       actions |-> FieldOr(error, "actions", Null),
       context |-> FieldOr(error, "context", commandName),
       commandName |-> FieldOr(error, "commandName", commandName),
       data |-> FieldOr(error, "data", Null),
       result |-> FieldOr(error, "result", Null)]),
    [message |-> Here(error).message,
     name |-> Coalesce(Here(error).name, Str(ErrorWord)),
     status |-> codeFromError,
     stack |-> Here(error).stack,
     exitCode |-> codeFromError])

errorToSfCommandError(codeFromError, error, commandName) ==
  Spread(
    removeEmpty(
      [code |-> codeFromError,
       actions |-> FieldOr(error, "actions", Null),
       context |-> Coalesce(FieldOr(error, "context", commandName), commandName),
       commandName |->
         Coalesce(FieldOr(error, "commandName", commandName), commandName),
       data |-> FieldOr(error, "data", Null),
       result |-> FieldOr(error, "result", Null)]),
    [message |-> Here(error).message,
     name |-> Coalesce(Here(error).name, Str(ErrorWord)),
     status |-> codeFromError,
     stack |-> Here(error).stack,
     exitCode |-> codeFromError])

Arr(items) == [t |-> "array", items |-> items]
DeployText == <<"d", "e", "p", "l", "o", "y">>
OtherText == <<"o", "r", "g">>

ReportNodes ==
  {[PlainNode EXCEPT !.name = n, !.stack = k] :
     n \in {Str(ErrorWord), Undefined}, k \in {Str(StackText), Undefined}}

ReportFields ==
  {[NoFields EXCEPT !.actions = a, !.context = c, !.commandName = n,
                    !.data = d, !.result = r] :
     a \in {Absent, Undefined, Null, Arr(<<Str(PlainText)>>)},
     c \in {Absent, Undefined, Null, Str(<<>>), Str(OtherText)},
     n \in {Absent, Undefined, Null, Str(OtherText)},
     d \in {Absent, Null, Obj(Absent)},
     r \in {Absent, Undefined, Num(0)}}

ReportErrors ==
  {[Chain(<<n>>, Absent) EXCEPT !.f = f] : n \in ReportNodes, f \in ReportFields}

Report(r) == [t |-> "SfCommandError", r |-> r]

CallErrorToSfCommandError ==
  /\ call = NoCall
  /\ \E c \in ExitNumbers, e \in ReportErrors, n \in {Str(DeployText)} :
       call' = [op |-> "errorToSfCommandError", codeFromError |-> c,
                error |-> e, commandName |-> n,
                out |-> Return(Report(errorToSfCommandError(c, e, n)))]
  /\ UNCHANGED <<processExitCode, pc, fn, cur, seen>>

InitReport == InitClassify

NextReport ==
  \/ CallErrorToSfCommandError
  \/ CallReturns

SpecReport == InitReport /\ [][NextReport]_vars

\* The error's own value of field k when it carries one that is neither null
\* nor undefined, and the commandName passed in otherwise.
OwnOrCommandName(k) ==
  IF In(call.error.f[k]) /\ ~IsNullish(call.error.f[k])
  THEN call.error.f[k] ELSE call.commandName

\* C9: code, status and exitCode are the code passed in; context and
\* commandName are always present, the error's own non-null value or else
\* the commandName passed in; actions, data and result are present only when
\* the error carries them.
C9_Report ==
  call.op = "errorToSfCommandError" =>
    LET r == call.out.v.r IN
    /\ {"code", "status", "exitCode", "context", "commandName"}
         \subseteq DOMAIN r
    /\ r.code = call.codeFromError
    /\ r.status = call.codeFromError
    /\ r.exitCode = call.codeFromError
    /\ r.context = OwnOrCommandName("context")
    /\ r.commandName = OwnOrCommandName("commandName")
    /\ \A k \in {"actions", "data", "result"} :
         k \in DOMAIN r => In(call.error.f[k])

\* An error whose context is null and that has no commandName, actions, data
\* or result: both names are the one passed in, the three keys are missing.
C9_Witness ==
  /\ call.op = "errorToSfCommandError"
  /\ call.error.f.context = Null
  /\ call.error.f.commandName = Absent
  /\ call.error.f.actions = Absent
  /\ call.error.f.data = Absent
  /\ call.error.f.result = Absent
  /\ call.out.v.r.context = call.commandName
  /\ call.out.v.r.commandName = call.commandName
  /\ DOMAIN call.out.v.r \cap {"actions", "data", "result"} = {}

(***************************************************************************)
(* The duration flag.                                                      *)
(***************************************************************************)
DigitValue(c) ==
  CASE c = "0" -> 0 [] c = "1" -> 1 [] c = "2" -> 2 [] c = "3" -> 3
    [] c = "4" -> 4 [] c = "5" -> 5 [] c = "6" -> 6 [] c = "7" -> 7
    [] c = "8" -> 8 [] c = "9" -> 9

\* s without its leading white space.
RECURSIVE TrimStart(_)
TrimStart(s) == IF Len(s) > 0 /\ Head(s) = " " THEN TrimStart(Tail(s)) ELSE s

\* The value of the leading digits of s, after the value `acc` of the digits
\* read so far.
RECURSIVE DigitsValue(_, _)
DigitsValue(s, acc) ==
  IF Len(s) > 0 /\ Head(s) \in Digit
  THEN DigitsValue(Tail(s), 10 * acc + DigitValue(Head(s)))
  ELSE acc

\* Number(input)-like parsing: the whole input has to be digits.
parseInt_WholeInput(input) ==
  LET s == TrimStart(input)
      signed == Len(s) > 0 /\ Head(s) \in {"-", "+"}
      body == IF signed THEN Tail(s) ELSE s
  IN IF Len(body) = 0 \/ \E i \in 1..Len(body) : body[i] \notin Digit THEN NaN
     ELSE Num((IF signed /\ Head(s) = "-" THEN -1 ELSE 1) * DigitsValue(body, 0))

\* parseInt(input, 10): white space, a sign, then digits up to the first
\* character that is none; NaN when there is no digit.
parseInt(input) ==
  LET s == TrimStart(input)
      signed == Len(s) > 0 /\ Head(s) \in {"-", "+"}
      body == IF signed THEN Tail(s) ELSE s
  IN IF Len(body) = 0 \/ Head(body) \notin Digit THEN NaN
     ELSE Num((IF signed /\ Head(s) = "-" THEN -1 ELSE 1) * DigitsValue(body, 0))

Duration(quantity, unit) ==
  [t |-> "Duration", quantity |-> quantity, unit |-> unit]

\* Duration[unit](parsedInput): a TypeError when unit names no constructor.
toDuration(parsedInput, unit) ==
  IF unit.t = "string" THEN Return(Duration(parsedInput.n, unit))
  ELSE Throw("TypeError")

\* throw messages.createError(key, tokens)
ThrowMessage(key, tokens) == [o |-> "throw", key |-> key, tokens |-> tokens]

Config(unit, defaultValue, min, max) ==
  [t |-> "config", unit |-> unit, defaultValue |-> defaultValue, min |-> min,
   max |-> max]

\* config || {}
ConfigOrEmpty(config) ==
  IF Truthy(config) THEN config ELSE Config(Absent, Absent, Absent, Absent)

\* validate with bounds that are enforced whenever they are set.
validate_ZeroEnforced(input, config) ==
  LET min == Get(ConfigOrEmpty(config).min)
      max == Get(ConfigOrEmpty(config).max)
      unit == Get(ConfigOrEmpty(config).unit)
      parsedInput == parseInt(input)
  IN IF ~IsNumber(parsedInput) \/ parsedInput = NaN
     THEN ThrowMessage("errors.InvalidDuration", <<>>)
     ELSE IF IsNumber(min) /\ parsedInput.n < min.n
          THEN ThrowMessage("errors.DurationBounds", <<min, max>>)
     ELSE IF IsNumber(max) /\ parsedInput.n > max.n
          THEN ThrowMessage("errors.DurationBounds", <<min, max>>)
     ELSE toDuration(parsedInput, unit)

validate(input, config) ==
  LET min == Get(ConfigOrEmpty(config).min)
      max == Get(ConfigOrEmpty(config).max)
      unit == Get(ConfigOrEmpty(config).unit)
      parsedInput == parseInt(input)
  IN IF ~IsNumber(parsedInput) \/ parsedInput = NaN
     THEN ThrowMessage("errors.InvalidDuration", <<>>)
     ELSE IF Truthy(min) /\ parsedInput.n < min.n
          THEN ThrowMessage("errors.DurationBounds", <<min, max>>)
     ELSE IF Truthy(max) /\ parsedInput.n > max.n
          THEN ThrowMessage("errors.DurationBounds", <<min, max>>)
     ELSE toDuration(parsedInput, unit)

\* The `default` of durationFlag, on context.options.
durationFlagDefault(options) ==
  IF Truthy(Get(options.defaultValue))
  THEN toDuration(options.defaultValue, options.unit)
  ELSE Return(Undefined)

InputChars == {"0", "1", "-", "a", " "}
RawInputs == UNION {[1..k -> InputChars] : k \in 0..MaxLen}
Units == {Str(<<"m", "i", "n", "u", "t", "e", "s">>),
          Str(<<"s", "e", "c", "o", "n", "d", "s">>)}
BoundValues == {Absent} \cup {Num(n) : n \in -1..MaxBound}
ValidateConfigs ==
  {Undefined}
    \cup {Config(u, Absent, lo, hi) :
            u \in Units, lo \in BoundValues, hi \in BoundValues}
DefaultConfigs ==
  {Config(u, d, lo, Absent) :
     u \in Units, d \in BoundValues \cup {Undefined}, lo \in BoundValues}

CallValidate ==
  /\ call = NoCall
  /\ \E i \in RawInputs, c \in ValidateConfigs :
       call' = [op |-> "validate", input |-> i, config |-> c,
                out |-> validate(i, c)]
  /\ UNCHANGED <<processExitCode, pc, fn, cur, seen>>

CallDefault ==
  /\ call = NoCall
  /\ \E c \in DefaultConfigs :
       call' = [op |-> "default", config |-> c,
                out |-> durationFlagDefault(c)]
  /\ UNCHANGED <<processExitCode, pc, fn, cur, seen>>

InitDuration == InitClassify

NextDuration ==
  \/ CallValidate
  \/ CallDefault
  \/ CallReturns

SpecDuration == InitDuration /\ [][NextDuration]_vars

\* min (or max) is set and is not zero.
SetAndNonZero(v) == IsNumber(v) /\ v # NaN /\ v.n # 0

\* C6: an input that parses to an integer n fails with DurationBounds,
\* carrying (min, max), exactly when min is set, is not 0 and n < min, or max
\* is set, is not 0 and n > max; otherwise validate returns n in config.unit.
\* A bound of 0 is skipped.
C6_Bounds ==
  (call.op = "validate" /\ call.config # Undefined
     /\ parseInt(call.input) # NaN) =>
    LET n == parseInt(call.input).n
        min == Get(call.config.min)
        max == Get(call.config.max)
        outside == \/ (SetAndNonZero(min) /\ n < min.n)
                   \/ (SetAndNonZero(max) /\ n > max.n)
    IN /\ outside =>
            call.out = ThrowMessage("errors.DurationBounds", <<min, max>>)
       /\ ~outside => call.out = Return(Duration(n, call.config.unit))

\* "-1" with a min of 0: the bound is skipped and -1 is returned.
C6_Witness ==
  /\ call.op = "validate"
  /\ call.input = <<"-", "1">>
  /\ call.config # Undefined
  /\ call.config.min = Num(0)
  /\ call.config.max = Absent
  /\ call.out = Return(Duration(-1, call.config.unit))

\* Whether s is white space, an optional sign and then a digit, followed by
\* anything.
HasNumericPrefix(s) ==
  \E i \in 1..Len(s) :
    /\ s[i] \in Digit
    /\ \A j \in 1..(i - 1) :
         s[j] = " " \/ (j = i - 1 /\ s[j] \in {"-", "+"})

\* C7: validate fails with InvalidDuration exactly when the input has no
\* numeric prefix, whatever the bounds are; an input such as "1a" is taken as
\* the number of its prefix.
C7_InvalidDuration ==
  call.op = "validate" =>
    /\ (call.out = ThrowMessage("errors.InvalidDuration", <<>>))
         <=> ~HasNumericPrefix(call.input)
    /\ (call.input = <<"1", "a">> /\ call.config # Undefined
          /\ call.config.min = Absent /\ call.config.max = Absent) =>
         call.out = Return(Duration(1, call.config.unit))

\* "a1" with both bounds set: InvalidDuration, not DurationBounds.
C7_Witness ==
  /\ call.op = "validate"
  /\ call.input = <<"a", "1">>
  /\ call.config # Undefined
  /\ call.config.min = Num(MaxBound)
  /\ call.config.max = Num(MaxBound)
  /\ call.out = ThrowMessage("errors.InvalidDuration", <<>>)

\* C8 as stated: the default is a duration of defaultValue whenever
\* defaultValue is set, and undefined only when it is not set.
C8_DefaultWheneverSet ==
  call.op = "default" =>
    IF IsNumber(Get(call.config.defaultValue))
    THEN call.out =
           Return(Duration(call.config.defaultValue.n, call.config.unit))
    ELSE call.out = Return(Undefined)

(***************************************************************************)
(* errorIsGack and errorIsTypeError step by step, one invocation of the    *)
(* function per step, on chains that may be cyclic.  `cur` is the error    *)
(* the current invocation was called with, `seen` the nodes that earlier   *)
(* invocations of the same call tested.  The depth of the recursion is not *)
(* bounded: the code bounds it nowhere.                                    *)
(***************************************************************************)
WalkNodes == ProbeNodes \cup {[PlainNode EXCEPT !.message = Undefined]}

\* Chains whose last node has no cause, a cause that is no Error, or an
\* earlier node (or itself) as its cause.
WalkErrors ==
  {e \in {Chain(ns, l) :
            ns \in SeqsUpTo(WalkNodes, MaxDepth + 1),
            l \in {Absent, Str(PlainText)}
                    \cup {Back(j) : j \in 1..(MaxDepth + 1)}} :
     e.last.t = "back" => e.last.to <= Len(e.nodes)}

\* The tests of function f on the error itself.
TestHere(f, error) ==
  IF f = "errorIsGack"
  THEN (IF GackHere(error) THEN "true" ELSE "false")
  ELSE TypeErrorHere(error)

InitWalk == InitClassify

\* errorIsGack(e) or errorIsTypeError(e) is called.
WalkStarts ==
  /\ pc = "idle"
  /\ \E f \in {"errorIsGack", "errorIsTypeError"}, e \in WalkErrors :
       /\ fn' = f
       /\ cur' = e
  /\ pc' = "test"
  /\ seen' = {}
  /\ UNCHANGED <<call, processExitCode>>

\* A test on the error itself succeeds: true, through every caller.
WalkMatches ==
  /\ pc = "test"
  /\ TestHere(fn, cur) = "true"
  /\ pc' = "returned"
  /\ call' = [op |-> fn, error |-> cur, out |-> Return(Bool(TRUE))]
  /\ UNCHANGED <<processExitCode, fn, cur, seen>>

\* message.includes or stack.includes is no function.
WalkThrows ==
  /\ pc = "test"
  /\ TestHere(fn, cur) = "throw"
  /\ pc' = "returned"
  /\ call' = [op |-> fn, error |-> cur, out |-> Throw("TypeError")]
  /\ UNCHANGED <<processExitCode, fn, cur, seen>>

\* No test succeeds and the cause is an Error: the function calls itself.
WalkRecurses ==
  /\ pc = "test"
  /\ TestHere(fn, cur) = "false"
  /\ HasCause(cur) /\ CauseIsError(cur)
  /\ cur' = Cause(cur)
  /\ seen' = seen \cup {cur.at}
  /\ UNCHANGED <<call, processExitCode, pc, fn>>

\* No test succeeds and there is no cause that is an Error: false.
WalkEnds ==
  /\ pc = "test"
  /\ TestHere(fn, cur) = "false"
  /\ ~(HasCause(cur) /\ CauseIsError(cur))
  /\ pc' = "returned"
  /\ call' = [op |-> fn, error |-> cur, out |-> Return(Bool(FALSE))]
  /\ UNCHANGED <<processExitCode, fn, cur, seen>>

\* The caller takes the result.
WalkReturns ==
  /\ pc = "returned"
  /\ pc' = "idle"
  /\ fn' = "none"
  /\ cur' = NoError
  /\ seen' = {}
  /\ call' = NoCall
  /\ UNCHANGED processExitCode

WalkStep == WalkMatches \/ WalkThrows \/ WalkRecurses \/ WalkEnds

NextWalk ==
  \/ WalkStarts
  \/ WalkMatches
  \/ WalkThrows
  \/ WalkRecurses
  \/ WalkEnds
  \/ WalkReturns

\* A call that has been made keeps running: the code is synchronous.
SpecWalk == InitWalk /\ [][NextWalk]_vars /\ WF_vars(WalkStep)

Cyclic(error) == error.last.t = "back"
SomeNodeMatches(f, error) ==
  \E i \in 1..Len(error.nodes) : TestHere(f, NodeAt(error, i)) = "true"

\* The nodes are tested from the outermost inward and the first that matches
\* ends the call: every node tested before the current one did not match, and
\* before the first pass round a cycle those are exactly the nodes above it.
FirstMatchEnds ==
  pc \in {"test", "returned"} =>
    /\ \A i \in seen : TestHere(fn, NodeAt(cur, i)) = "false"
    /\ cur.at \notin seen => seen = 1..(cur.at - 1)
    /\ (pc = "returned" /\ call.out = Return(Bool(TRUE))) =>
         TestHere(fn, cur) = "true"

\* A call on a cyclic chain returns only when some node of it matches.
CycleReturnsOnlyOnMatch ==
  (pc = "returned" /\ AllWellTyped(cur) /\ Cyclic(cur)) =>
    SomeNodeMatches(fn, cur)

\* C10: the walk goes from the outermost error inward and stops at the first
\* node that matches; a call returns when the chain is finite or some node
\* matches, and on a cyclic chain without a matching node it never returns
\* (the nodes typed as declared).
C10_Termination ==
  /\ []FirstMatchEnds
  /\ []CycleReturnsOnlyOnMatch
  /\ (pc = "test" /\ AllWellTyped(cur)
        /\ (~Cyclic(cur) \/ SomeNodeMatches(fn, cur))) ~> (pc = "returned")

\* On a cycle without a match the call is testing a node again.
C10_Witness ==
  /\ pc = "test"
  /\ AllWellTyped(cur)
  /\ Cyclic(cur)
  /\ Len(cur.nodes) > 1
  /\ ~SomeNodeMatches(fn, cur)
  /\ cur.at \in seen

====
